---- MODULE Spec2Model ----
(***************************************************************************)
(* Model of src/preprocessing/automate_nutrition_preprocessing.py: the     *)
(* stages load_data, check_missing_values, check_duplicates,               *)
(* describe_data, drop_unnecessary_columns, normalize_features and the     *)
(* orchestrator preprocessing_pipeline.                                    *)
(*                                                                         *)
(* A DataFrame is a record [columns, dtypes, rows]; a row is [idx, val]    *)
(* where idx is the pandas index label and val maps column names to cells. *)
(* A cell is [k, s, m, e]: k = "nan" (missing), "str" (text, m its code),   *)
(* "num" (a finite float64) or "inf" (an infinite one).                    *)
(***************************************************************************)
EXTENDS Integers, Sequences, FiniteSets, TLC

VARIABLES
    \* ---- direct calls of the stage functions ----
    fn,             \* which function the caller has called: "none" before the call
    fn_in,          \* the DataFrame as it was when passed in
    fn_arg,         \* the list argument of the call (columns_to_drop / numeric_columns)
    fn_df,          \* the caller's DataFrame object after the call
    fn_ret,         \* what the call returned, or the exception it raised
    \* ---- preprocessing_pipeline (Spec) ----
    pc,             \* position inside preprocessing_pipeline
    file,           \* the CSV at input_filepath
    args,           \* the arguments the caller passes on every call
    default_drop,   \* the list object bound to the default of columns_to_drop
    drop_ref,       \* which list object the parameter columns_to_drop refers to
    columns_to_drop,\* contents of the list the parameter refers to
    df,             \* local df
    df_clean,       \* local df_clean
    df_normalized,  \* local df_normalized
    scaler,         \* local scaler
    numeric_cols,   \* local numeric_cols
    out_file,       \* the file at output_filepath
    out_before,     \* the file at output_filepath when the current call began
    log,            \* the stage banners printed by the current call, in order
    completed,      \* the stages of the current call that have returned, in order
    loaded_shape,   \* the shape load_data printed ("Shape dataset: ...")
    metadata,       \* the metadata dict of the current call
    raised,         \* the exception that left preprocessing_pipeline, "none" if none
    runs,           \* number of calls begun
    results         \* what each completed call returned, in order

fnvars == <<fn, fn_in, fn_arg, fn_df, fn_ret>>
pipevars == <<pc, file, args, default_drop, drop_ref, columns_to_drop, df, df_clean,
              df_normalized, scaler, numeric_cols, out_file, out_before, log,
              completed, loaded_shape, metadata, raised, runs, results>>
vars == <<fn, fn_in, fn_arg, fn_df, fn_ret, pc, file, args, default_drop, drop_ref,
          columns_to_drop, df, df_clean, df_normalized, scaler, numeric_cols,
          out_file, out_before, log, completed, loaded_shape, metadata, raised, runs,
          results>>

-----------------------------------------------------------------------------
(* Bounds of the model *)

MaxRows == 3        \* rows of a DataFrame passed to the checks or to the prune stage
MaxVal == 1         \* the numbers of these frames and of the CSV range over 0..MaxVal
MaxScaledRows == 2  \* rows of a DataFrame passed to normalize_features
MaxScaledVal == 5   \* its whole numbers range over 0..MaxScaledVal
MaxFileRows == 2    \* rows of the CSV given to the pipeline
MaxRuns == 2        \* calls of preprocessing_pipeline in one behaviour

-----------------------------------------------------------------------------
(* Cells.  A number is a float64 (IEEE 754 binary64): sign s, and the magnitude *)
(* m * 2^e with m an odd natural below 2^53 (zero: m = 0, e = 0).  m is held   *)
(* as limbs base 2^15, least significant first, no high zero limb.            *)

LimbBits == 15
Base == 2^LimbBits
Precision == 53         \* bits of a float64 significand
MinExp == -1074         \* 2^MinExp is the least positive float64
MaxTop == 1024          \* every finite float64 is below 2^MaxTop

NaN == [k |-> "nan", s |-> 1, m |-> <<>>, e |-> 0]
Str(x) == [k |-> "str", s |-> 1, m |-> <<x>>, e |-> 0]
Inf(s) == [k |-> "inf", s |-> s, m |-> <<>>, e |-> 0]
Zero(s) == [k |-> "num", s |-> s, m |-> <<>>, e |-> 0]

Range(s) == {s[i] : i \in 1..Len(s)}

Abs(x) == IF x < 0 THEN -x ELSE x

RECURSIVE BTrim(_)
BTrim(a) ==
    IF a # <<>> /\ a[Len(a)] = 0 THEN BTrim(SubSeq(a, 1, Len(a) - 1)) ELSE a

RECURSIVE BFromInt(_)
BFromInt(x) == IF x = 0 THEN <<>> ELSE <<x % Base>> \o BFromInt(x \div Base)

Limb(a, i) == IF 1 <= i /\ i <= Len(a) THEN a[i] ELSE 0

RECURSIVE BAddC(_, _, _)
BAddC(a, b, c) ==
    IF a = <<>> /\ b = <<>> THEN (IF c = 0 THEN <<>> ELSE <<c>>)
    ELSE LET x == Limb(a, 1) + Limb(b, 1) + c
         IN  <<x % Base>> \o BAddC(IF a = <<>> THEN a ELSE Tail(a),
                                   IF b = <<>> THEN b ELSE Tail(b), x \div Base)

BAdd(a, b) == BAddC(a, b, 0)

RECURSIVE BSubC(_, _, _)
BSubC(a, b, c) ==
    IF a = <<>> THEN <<>>
    ELSE LET x == a[1] - Limb(b, 1) - c
         IN  <<IF x < 0 THEN x + Base ELSE x>>
                 \o BSubC(Tail(a), IF b = <<>> THEN b ELSE Tail(b),
                          IF x < 0 THEN 1 ELSE 0)

\* a - b for a >= b
BSub(a, b) == BTrim(BSubC(a, b, 0))

RECURSIVE BCmpAt(_, _, _)
BCmpAt(a, b, i) ==
    IF i = 0 THEN 0
    ELSE IF a[i] < b[i] THEN -1
    ELSE IF a[i] > b[i] THEN 1
    ELSE BCmpAt(a, b, i - 1)

\* -1, 0 or 1 as a < b, a = b or a > b
BCmp(a, b) ==
    IF Len(a) < Len(b) THEN -1
    ELSE IF Len(a) > Len(b) THEN 1
    ELSE BCmpAt(a, b, Len(a))

RECURSIVE BMulC(_, _, _)
BMulC(a, x, c) ==
    IF a = <<>> THEN (IF c = 0 THEN <<>> ELSE <<c>>)
    ELSE LET p == a[1] * x + c
         IN  <<p % Base>> \o BMulC(Tail(a), x, p \div Base)

\* a times the limb x
BMulLimb(a, x) == IF x = 1 THEN a ELSE BTrim(BMulC(a, x, 0))

\* a * b, limb by limb of b
RECURSIVE BMulBy(_, _)
BMulBy(a, b) ==
    IF b = <<>> THEN <<>>
    ELSE IF Len(b) = 1 THEN BMulLimb(a, b[1])
    ELSE BAdd(BMulLimb(a, b[1]), <<0>> \o BMulBy(a, Tail(b)))

BMul(a, b) ==
    IF a = <<>> \/ b = <<>> THEN <<>>
    ELSE IF Len(a) < Len(b) THEN BMulBy(b, a) ELSE BMulBy(a, b)

\* a * 2^n
BShl(a, n) ==
    IF a = <<>> \/ n = 0 THEN a
    ELSE [i \in 1..(n \div LimbBits) |-> 0] \o BMulLimb(a, 2^(n % LimbBits))

RECURSIVE BDivLimbAt(_, _, _, _)
BDivLimbAt(a, x, i, r) ==
    IF i = 0 THEN <<>>
    ELSE LET p == r * Base + a[i]
         IN  BDivLimbAt(a, x, i - 1, p % x) \o <<p \div x>>

\* a \div 2^n
BShr(a, n) ==
    IF n = 0 THEN a
    ELSE IF n \div LimbBits >= Len(a) THEN <<>>
    ELSE LET hi == SubSeq(a, n \div LimbBits + 1, Len(a))
         IN  IF n % LimbBits = 0 THEN hi
             ELSE BTrim(BDivLimbAt(hi, 2^(n % LimbBits), Len(hi), 0))

RECURSIVE BitsOf(_)
BitsOf(x) == IF x = 0 THEN 0 ELSE 1 + BitsOf(x \div 2)

\* the number of bits of a
BBitLen(a) == IF a = <<>> THEN 0 ELSE LimbBits * (Len(a) - 1) + BitsOf(a[Len(a)])

\* bit n of a (bit 0 is the least significant)
BBit(a, n) == (Limb(a, n \div LimbBits + 1) \div 2^(n % LimbBits)) % 2

\* the n low bits of a are all zero
BLowZero(a, n) ==
    /\ \A i \in 1..(n \div LimbBits) : Limb(a, i) = 0
    /\ Limb(a, n \div LimbBits + 1) % 2^(n % LimbBits) = 0

RECURSIVE ZerosOf(_)
ZerosOf(x) == IF x % 2 = 1 THEN 0 ELSE 1 + ZerosOf(x \div 2)

\* the number of low zero bits of a, a # 0
RECURSIVE BTrailingZeros(_)
BTrailingZeros(a) ==
    IF a[1] = 0 THEN LimbBits + BTrailingZeros(Tail(a)) ELSE ZerosOf(a[1])

\* the largest q <= guess with q * d <= r
RECURSIVE BFit(_, _, _)
BFit(r, d, guess) ==
    IF BCmp(BMulLimb(d, guess), r) > 0 THEN BFit(r, d, guess - 1) ELSE guess

\* long division by d (high limb at least Base/2): the limbs i..1 of a are still
\* to be brought down, r is the remainder so far
RECURSIVE BDivAt(_, _, _, _)
BDivAt(a, d, i, r) ==
    IF i = 0 THEN [q |-> <<>>, r |-> r]
    ELSE LET r1 == BTrim(<<a[i]>> \o r)
             guess == (Limb(r1, Len(d) + 1) * Base + Limb(r1, Len(d))) \div d[Len(d)]
             q == BFit(r1, d, IF guess >= Base THEN Base - 1 ELSE guess)
             rest == BDivAt(a, d, i - 1, BSub(r1, BMulLimb(d, q)))
         IN  [q |-> rest.q \o <<q>>, r |-> rest.r]

\* a \div d and whether the division is exact, d # 0: short division by a
\* single limb, long division otherwise
BDiv(a, d) ==
    IF Len(d) = 1
    THEN LET q == BTrim(BDivLimbAt(a, d[1], Len(a), 0))
         IN  [q |-> q, exact |-> BMulLimb(q, d[1]) = a]
    ELSE LET t == LimbBits - BitsOf(d[Len(d)])
             a1 == BShl(a, t)
             res == BDivAt(a1, BShl(d, t), Len(a1), <<>>)
         IN  [q |-> BTrim(res.q), exact |-> res.r = <<>>]

\* the float64 s * m * 2^e for m # 0 of at most Precision bits and e >= MinExp:
\* m is made odd; a value of 2^MaxTop or more is infinite
Finite(s, m, e) ==
    IF e + BBitLen(m) > MaxTop THEN Inf(s)
    ELSE IF m[1] % 2 = 1 THEN [k |-> "num", s |-> s, m |-> m, e |-> e]
    ELSE [k |-> "num", s |-> s, m |-> BShr(m, BTrailingZeros(m)),
          e |-> e + BTrailingZeros(m)]

\* s * m * 2^e with the n low bits of m rounded away: up when they (and the
\* part below m, if sticky) exceed half of the last place kept, or are half of
\* it and the kept part is odd (round-half-to-even)
RoundAt(s, m, e, n, sticky) ==
    LET q == BShr(m, n)
        up == /\ BBit(m, n - 1) = 1
              /\ (sticky \/ BBit(q, 0) = 1 \/ ~BLowZero(m, n - 1))
        r == IF up THEN BAdd(q, <<1>>) ELSE q
    IN  IF r = <<>> THEN Zero(s) ELSE Finite(s, r, e + n)

\* the float64 nearest to s * (m + f) * 2^e, where 0 < f < 1 if sticky and f = 0
\* if not: Precision bits are kept, fewer below 2^-1022 (subnormal)
Round(s, m, e, sticky) ==
    IF m = <<>> THEN Zero(s)
    ELSE IF e + BBitLen(m) - Precision > MinExp
    THEN (IF BBitLen(m) <= Precision THEN Finite(s, m, e)
          ELSE RoundAt(s, m, e, BBitLen(m) - Precision, sticky))
    ELSE (IF e >= MinExp THEN Finite(s, m, e)
          ELSE RoundAt(s, m, e, MinExp - e, sticky))

\* the float64 of the integer x
Num(x) == Round(IF x < 0 THEN -1 ELSE 1, BFromInt(Abs(x)), 0, FALSE)

IsZero(a) == a.k = "num" /\ a.m = <<>>

\* a finite a # 0 is below 2^Top(a) and at least half of it
Top(a) == a.e + BBitLen(a.m)

\* -1, 0 or 1 as |a| < |b|, |a| = |b| or |a| > |b|, for finite a and b
MagCmp(a, b) ==
    IF a.m = <<>> \/ b.m = <<>>
    THEN (IF a.m = b.m THEN 0 ELSE IF a.m = <<>> THEN -1 ELSE 1)
    ELSE IF Top(a) # Top(b) THEN (IF Top(a) < Top(b) THEN -1 ELSE 1)
    ELSE LET lo == IF a.e < b.e THEN a.e ELSE b.e
         IN  BCmp(BShl(a.m, a.e - lo), BShl(b.m, b.e - lo))

\* -1, 0 or 1 as a < b, a = b or a > b, for numbers a and b that are not nan
Cmp(a, b) ==
    LET sa == IF IsZero(a) THEN 0 ELSE a.s
        sb == IF IsZero(b) THEN 0 ELSE b.s
    IN  IF sa # sb THEN (IF sa < sb THEN -1 ELSE 1)
        ELSE IF sa = 0 THEN 0
        ELSE IF a.k = "inf" \/ b.k = "inf"
        THEN (IF a.k = b.k THEN 0 ELSE IF a.k = "inf" THEN sa ELSE -sa)
        ELSE sa * MagCmp(a, b)

IsNumber(a) == a.k \in {"num", "inf"}

\* a <= b and a < b: false when an operand is nan
Leq(a, b) == IsNumber(a) /\ IsNumber(b) /\ Cmp(a, b) <= 0
Less(a, b) == IsNumber(a) /\ IsNumber(b) /\ Cmp(a, b) < 0

Neg(a) == [a EXCEPT !.s = -a.s]

\* float64 addition; an operand below a quarter of the other's last place
\* leaves the other as it is
Add(a, b) ==
    IF a.k = "nan" \/ b.k = "nan" THEN NaN
    ELSE IF a.k = "inf" /\ b.k = "inf" THEN (IF a.s = b.s THEN a ELSE NaN)
    ELSE IF a.k = "inf" THEN a
    ELSE IF b.k = "inf" THEN b
    ELSE IF a.m = <<>> /\ b.m = <<>> THEN Zero(IF a.s = -1 /\ b.s = -1 THEN -1 ELSE 1)
    ELSE IF b.m = <<>> \/ (a.m # <<>> /\ Top(a) - Top(b) > Precision + 2) THEN a
    ELSE IF a.m = <<>> \/ Top(b) - Top(a) > Precision + 2 THEN b
    ELSE LET lo == IF a.e < b.e THEN a.e ELSE b.e
             x == BShl(a.m, a.e - lo)
             y == BShl(b.m, b.e - lo)
         IN  IF a.s = b.s THEN Round(a.s, BAdd(x, y), lo, FALSE)
             ELSE IF BCmp(x, y) = 0 THEN Zero(1)
             ELSE IF BCmp(x, y) > 0 THEN Round(a.s, BSub(x, y), lo, FALSE)
             ELSE Round(b.s, BSub(y, x), lo, FALSE)

\* float64 subtraction
Sub(a, b) == IF b.k = "nan" THEN NaN ELSE Add(a, Neg(b))

\* float64 multiplication
Mul(a, b) ==
    IF a.k = "nan" \/ b.k = "nan" THEN NaN
    ELSE IF a.k = "inf" \/ b.k = "inf"
    THEN (IF IsZero(a) \/ IsZero(b) THEN NaN ELSE Inf(a.s * b.s))
    ELSE Round(a.s * b.s, BMul(a.m, b.m), a.e + b.e, FALSE)

\* float64 division: x/0 is infinite for x # 0, 0/0 and inf/inf are nan
Div(a, b) ==
    IF a.k = "nan" \/ b.k = "nan" THEN NaN
    ELSE IF a.k = "inf" THEN (IF b.k = "inf" THEN NaN ELSE Inf(a.s * b.s))
    ELSE IF b.k = "inf" THEN Zero(a.s * b.s)
    ELSE IF b.m = <<>> THEN (IF a.m = <<>> THEN NaN ELSE Inf(a.s * b.s))
    ELSE IF a.m = <<>> THEN Zero(a.s * b.s)
    ELSE LET sh == Precision + 3 + BBitLen(b.m) - BBitLen(a.m)
             d == BDiv(BShl(a.m, sh), b.m)
         IN  Round(a.s * b.s, d.q, a.e - b.e - sh, ~d.exact)

-----------------------------------------------------------------------------
(* DataFrames *)

ColSet(t) == Range(t.columns)
Shape(t) == <<Len(t.rows), Len(t.columns)>>
EmptyFrame == [columns |-> <<>>, dtypes |-> <<>>, rows |-> <<>>]

\* the CSV cell 1e-16: the float64 nearest to it, 2028240960365167 * 2^-104
NearZero == [k |-> "num", s |-> 1, m |-> <<8815, 19436, 21170, 57>>, e |-> -104]

\* the numeric cells of the model: empty, or a whole number of 0..hi written
\* without a decimal point
Numbers(hi) == {NaN} \cup {Num(x) : x \in 0..hi}

\* the values a CSV column can hold in this model, nums those of "calories"
ColumnValues(c, nums) ==
    CASE c = "id"       -> {Num(1), Num(2)}
      [] c = "name"     -> {NaN, Str(1)}
      [] c = "calories" -> nums
      [] OTHER          -> {NaN}

FileColumns == <<"id", "name", "calories">>

RowValues(cols, nums) ==
    {r \in [Range(cols) -> UNION {ColumnValues(c, nums) : c \in Range(cols)}] :
        \A c \in Range(cols) : r[c] \in ColumnValues(c, nums)}

\* a cell read_csv parses as an integer
IsInteger(cell) == cell.k = "num" /\ cell.e >= 0

\* the dtype read_csv gives a column: object when a cell holds text or there is
\* no row, int64 when every cell is an integer, float64 otherwise
infer_dtype(vals, c) ==
    IF DOMAIN vals = {} \/ \E i \in DOMAIN vals : vals[i][c].k = "str" THEN "object"
    ELSE IF \A i \in DOMAIN vals : IsInteger(vals[i][c]) THEN "int64"
    ELSE "float64"

\* pandas gives a freshly read frame the index 0, 1, 2, ...
MkFrame(cols, vals) ==
    [columns |-> cols,
     dtypes |-> [c \in Range(cols) |-> infer_dtype(vals, c)],
     rows |-> [i \in DOMAIN vals |-> [idx |-> i - 1, val |-> vals[i]]]]

\* the frames of n rows over the columns cols
FramesOfLen(cols, n, nums) ==
    {MkFrame(cols, vals) : vals \in [1..n -> RowValues(cols, nums)]}

\* rows[i] for the indices i (ascending) whose keep[i] holds
RECURSIVE Take(_, _, _)
Take(rows, keep, i) ==
    IF i > Len(rows) THEN <<>>
    ELSE (IF keep[i] THEN <<rows[i]>> ELSE <<>>) \o Take(rows, keep, i + 1)

RECURSIVE SumOver(_, _)
SumOver(f, S) ==
    IF S = {} THEN 0
    ELSE LET c == CHOOSE x \in S : TRUE IN f[c] + SumOver(f, S \ {c})

-----------------------------------------------------------------------------
(* check_missing_values *)

isnull(cell) == cell.k = "nan"

RowHasNull(t, r) == \E c \in ColSet(t) : isnull(r.val[c])

\* df.isnull().sum(): per column, the number of missing entries
missing(t) ==
    [c \in ColSet(t) |-> Cardinality({i \in 1..Len(t.rows) : isnull(t.rows[i].val[c])})]

\* df.dropna(inplace=True): drops every row with a missing value in any column
dropna(t) ==
    [t EXCEPT !.rows = Take(t.rows, [i \in 1..Len(t.rows) |-> ~RowHasNull(t, t.rows[i])], 1)]

check_missing_values(t) ==
    IF SumOver(missing(t), ColSet(t)) = 0 THEN t ELSE dropna(t)

-----------------------------------------------------------------------------
(* check_duplicates *)

\* mutation: keep='last' in place of keep='first'
duplicated_keep_last(t) ==
    [i \in 1..Len(t.rows) |->
        \E j \in (i + 1)..Len(t.rows) : t.rows[j].val = t.rows[i].val]

\* df.duplicated(): row i is marked when an earlier row has the same values
\* (keep='first'; the index label is not part of the comparison)
duplicated(t) ==
    [i \in 1..Len(t.rows) |-> \E j \in 1..(i - 1) : t.rows[j].val = t.rows[i].val]

duplicates(t) == Cardinality({i \in 1..Len(t.rows) : duplicated(t)[i]})

\* df.drop_duplicates(inplace=True)
drop_duplicates(t) ==
    [t EXCEPT !.rows = Take(t.rows, [i \in 1..Len(t.rows) |-> ~duplicated(t)[i]], 1)]

check_duplicates(t) ==
    IF duplicates(t) > 0 THEN drop_duplicates(t) ELSE t

-----------------------------------------------------------------------------
(* describe_data: prints df.describe() and returns its argument *)

describe_data(t) == t

-----------------------------------------------------------------------------
(* drop_unnecessary_columns *)

DEFAULT_COLUMNS_TO_DROP == <<"id", "image">>

Ok(t) == [ok |-> TRUE, error |-> "none", table |-> t, scaler |-> <<>>,
          numeric_cols |-> <<>>]
Raise(e) == [ok |-> FALSE, error |-> e, table |-> EmptyFrame, scaler |-> <<>>,
             numeric_cols |-> <<>>]

\* DataFrame.drop(columns=labels): KeyError when a label is not a column
frame_drop(t, labels) ==
    IF \E i \in 1..Len(labels) : labels[i] \notin ColSet(t)
    THEN Raise("KeyError")
    ELSE LET keep == {c \in ColSet(t) : c \notin Range(labels)}
         IN  Ok([columns |-> SelectSeq(t.columns, LAMBDA c : c \in keep),
                 dtypes |-> [c \in keep |-> t.dtypes[c]],
                 rows |-> [i \in 1..Len(t.rows) |->
                             [idx |-> t.rows[i].idx,
                              val |-> [c \in keep |-> t.rows[i].val[c]]]]])

\* mutation: the drop list used as it is, without the "if col in df_clean.columns"
cols_unfiltered(t, to_drop) == to_drop

cols_to_remove(t, to_drop) == SelectSeq(to_drop, LAMBDA col : col \in ColSet(t))

\* the returned df_clean (or the exception); the work is done on df.copy()
drop_unnecessary_columns(t, to_drop) ==
    IF cols_to_remove(t, to_drop) # <<>>
    THEN frame_drop(t, cols_to_remove(t, to_drop))
    ELSE Ok(t)

\* the caller's DataFrame after drop_unnecessary_columns: df.copy() leaves it alone
drop_unnecessary_columns_input(t, to_drop) == t

-----------------------------------------------------------------------------
(* normalize_features *)

None == [given |-> FALSE, list |-> <<>>]
Some(l) == [given |-> TRUE, list |-> l]

\* df.select_dtypes(include=['float64', 'int64'])
IsNumericDtype(t, c) == t.dtypes[c] \in {"float64", "int64"}

resolve_numeric_cols(t, numeric_columns) ==
    IF ~numeric_columns.given
    THEN SelectSeq(t.columns, LAMBDA c : IsNumericDtype(t, c))
    ELSE SelectSeq(numeric_columns.list, LAMBDA col : col \in ColSet(t))

\* the entries of column c that are not missing
Present(t, c) == {t.rows[i].val[c] : i \in 1..Len(t.rows)} \ {NaN}

\* MinMaxScaler.fit: data_min_ / data_max_ ignore missing entries (nanmin, nanmax)
data_min(t, c) ==
    IF Present(t, c) = {} THEN NaN
    ELSE CHOOSE m \in Present(t, c) : \A x \in Present(t, c) : Leq(m, x)
data_max(t, c) ==
    IF Present(t, c) = {} THEN NaN
    ELSE CHOOSE m \in Present(t, c) : \A x \in Present(t, c) : Leq(x, m)

\* MinMaxScaler(): feature_range=(0, 1)
feature_range == <<Num(0), Num(1)>>

\* np.finfo(np.float64).eps = 2^-52
eps == [k |-> "num", s |-> 1, m |-> <<1>>, e |-> -52]

\* 10 * eps
ten_eps == Mul(Num(10), eps)

\* mutation: the data range used as it is
no_zero_guard(r) == r

\* _handle_zeros_in_scale: scale[scale < 10 * eps] = 1.0, so a constant or
\* nearly constant column is divided by 1
handle_zeros_in_scale(r) == IF Less(r, ten_eps) THEN feature_range[2] ELSE r

\* data_range_ = data_max_ - data_min_,
\* scale_ = (feature_range[1] - feature_range[0]) / _handle_zeros_in_scale(data_range_),
\* min_ = feature_range[0] - data_min_ * scale_
fit(t, cols) ==
    [c \in Range(cols) |->
        LET lo == data_min(t, c)
            hi == data_max(t, c)
            scale == Div(Sub(feature_range[2], feature_range[1]),
                         handle_zeros_in_scale(Sub(hi, lo)))
        IN  [data_min |-> lo, data_max |-> hi,
             scale |-> scale, min |-> Sub(feature_range[1], Mul(lo, scale))]]

\* MinMaxScaler.transform: X * scale_ + min_
transform(sc, x) == Add(Mul(x, sc.scale), sc.min)

normalize_features(t, numeric_columns) ==
    LET cols == resolve_numeric_cols(t, numeric_columns)
        sc == fit(t, cols)
    IN  IF \/ \E i \in 1..Len(cols) : ~IsNumericDtype(t, cols[i])
           \/ Len(t.rows) = 0
           \/ cols = <<>>
        THEN Raise("ValueError")
        ELSE [ok |-> TRUE, error |-> "none",
              table |-> [columns |-> t.columns,
                         dtypes |-> [c \in ColSet(t) |->
                                       IF c \in Range(cols) THEN "float64"
                                       ELSE t.dtypes[c]],
                         rows |-> [i \in 1..Len(t.rows) |->
                                    [idx |-> t.rows[i].idx,
                                     val |-> [c \in ColSet(t) |->
                                                IF c \in Range(cols)
                                                THEN transform(sc[c], t.rows[i].val[c])
                                                ELSE t.rows[i].val[c]]]]],
              scaler |-> sc,
              numeric_cols |-> cols]

-----------------------------------------------------------------------------
(* Direct calls of the stage functions on every DataFrame within the bounds *)

DropLists == {DEFAULT_COLUMNS_TO_DROP, <<"id", "image", "name">>, <<"image">>,
              <<"calories", "id">>}
NumericLists == {<<"calories", "proteins", "fat", "carbohydrate">>, <<"proteins">>,
                 <<"calories", "id">>, <<"name">>}

NoCall == [ok |-> TRUE, error |-> "none", table |-> EmptyFrame, scaler |-> <<>>,
           numeric_cols |-> <<>>]

PipeIdle ==
    /\ pc = "idle" /\ file = [exists |-> FALSE, frame |-> EmptyFrame]
    /\ args = [columns_to_drop |-> None, numeric_columns |-> None, output |-> FALSE]
    /\ default_drop = DEFAULT_COLUMNS_TO_DROP /\ drop_ref = "none"
    /\ columns_to_drop = <<>>
    /\ df = EmptyFrame /\ df_clean = EmptyFrame /\ df_normalized = EmptyFrame
    /\ scaler = <<>> /\ numeric_cols = <<>>
    /\ out_file = [exists |-> FALSE, frame |-> EmptyFrame]
    /\ out_before = [exists |-> FALSE, frame |-> EmptyFrame]
    /\ log = <<>> /\ completed = <<>> /\ loaded_shape = <<0, 0>> /\ metadata = <<>>
    /\ raised = "none" /\ runs = 0 /\ results = <<>>

InitFn ==
    /\ fn = "none"
    /\ \E n \in 0..MaxRows : fn_in \in FramesOfLen(FileColumns, n, Numbers(MaxVal))
    /\ fn_arg = None
    /\ fn_df = fn_in
    /\ fn_ret = NoCall
    /\ PipeIdle

\* df = check_missing_values(df); df = check_duplicates(df): both work in place
CallQualityChecks ==
    /\ fn = "none"
    /\ fn' = "quality"
    /\ fn_ret' = Ok(check_duplicates(check_missing_values(fn_df)))
    /\ fn_df' = check_duplicates(check_missing_values(fn_df))
    /\ UNCHANGED <<fn_in, fn_arg>>
    /\ UNCHANGED pipevars

CallDropColumns ==
    /\ fn = "none"
    /\ \E l \in DropLists :
        /\ fn_arg' = Some(l)
        /\ fn_ret' = drop_unnecessary_columns(fn_df, l)
        /\ fn_df' = drop_unnecessary_columns_input(fn_df, l)
    /\ fn' = "drop"
    /\ UNCHANGED fn_in
    /\ UNCHANGED pipevars

CallNormalize ==
    /\ fn = "none"
    /\ \E a \in {None} \cup {Some(l) : l \in NumericLists} :
        /\ fn_arg' = a
        /\ fn_ret' = normalize_features(fn_df, a)
    /\ fn' = "normalize"
    /\ UNCHANGED <<fn_in, fn_df>>
    /\ UNCHANGED pipevars

SpecQuality == InitFn /\ [][CallQualityChecks]_vars

SpecDrop == InitFn /\ [][CallDropColumns]_vars

\* the frames passed to normalize_features: whole numbers up to MaxScaledVal
\* and the cell 1e-16
InitNormalize ==
    /\ fn = "none"
    /\ \E n \in 0..MaxScaledRows :
          fn_in \in FramesOfLen(FileColumns, n, Numbers(MaxScaledVal) \cup {NearZero})
    /\ fn_arg = None
    /\ fn_df = fn_in
    /\ fn_ret = NoCall
    /\ PipeIdle

SpecNormalize == InitNormalize /\ [][CallNormalize]_vars

-----------------------------------------------------------------------------
(* preprocessing_pipeline *)

NoFile == [exists |-> FALSE, frame |-> EmptyFrame]
CsvFile(t) == [exists |-> TRUE, frame |-> t]

MAIN_COLUMNS_TO_DROP == <<"id", "image", "name">>
MAIN_NUMERIC_COLUMNS == <<"calories", "proteins", "fat", "carbohydrate">>

\* the calls a caller makes: defaults left alone, or the lists of the main block
ArgChoices ==
    [columns_to_drop : {None, Some(MAIN_COLUMNS_TO_DROP)},
     numeric_columns : {None, Some(MAIN_NUMERIC_COLUMNS)},
     output : BOOLEAN]

\* names a caller may append to the list it finds in metadata['columns_dropped']
CallerNames == {"name"}

\* the contents of the list object the parameter columns_to_drop refers to
Deref(ref) == IF ref = "default" THEN default_drop ELSE columns_to_drop

\* df.to_csv(path, index=False): the index labels are not written; a float64
\* column is written with a decimal point ("0.0") and the digits that read back
\* as the same float64, so it reads back as float64 with the same values, an
\* int64 column as int64, text as object, and a file without rows as object
to_csv(t) ==
    [columns |-> t.columns,
     dtypes |-> [c \in ColSet(t) |-> IF Len(t.rows) = 0 THEN "object" ELSE t.dtypes[c]],
     rows |-> [i \in 1..Len(t.rows) |-> [idx |-> i - 1, val |-> t.rows[i].val]]]

Init ==
    /\ fn = "none" /\ fn_in = EmptyFrame /\ fn_arg = None
    /\ fn_df = EmptyFrame /\ fn_ret = NoCall
    /\ pc = "idle"
    /\ \/ file = NoFile
       \/ \E n \in 0..MaxFileRows :
             \E t \in FramesOfLen(FileColumns, n, Numbers(MaxVal)) :
             file = CsvFile(t)
    /\ args \in ArgChoices
    /\ default_drop = DEFAULT_COLUMNS_TO_DROP
    /\ drop_ref = "none"
    /\ columns_to_drop = <<>>
    /\ df = EmptyFrame /\ df_clean = EmptyFrame /\ df_normalized = EmptyFrame
    /\ scaler = <<>> /\ numeric_cols = <<>>
    /\ out_file = NoFile /\ out_before = NoFile
    /\ log = <<>> /\ completed = <<>> /\ loaded_shape = <<0, 0>> /\ metadata = <<>>
    /\ raised = "none" /\ runs = 0 /\ results = <<>>

\* the caller calls preprocessing_pipeline: parameters are bound; a parameter
\* left out is bound to the list object created when the def was evaluated
Call ==
    /\ pc \in {"idle", "done", "failed"}
    /\ runs < MaxRuns
    /\ runs' = runs + 1
    /\ IF args.columns_to_drop.given
       THEN /\ drop_ref' = "fresh"
            /\ columns_to_drop' = args.columns_to_drop.list
       ELSE /\ drop_ref' = "default"
            /\ columns_to_drop' = default_drop
    /\ df' = EmptyFrame /\ df_clean' = EmptyFrame /\ df_normalized' = EmptyFrame
    /\ scaler' = <<>> /\ numeric_cols' = <<>>
    /\ log' = <<>> /\ completed' = <<>> /\ loaded_shape' = <<0, 0>> /\ metadata' = <<>>
    /\ raised' = "none"
    /\ out_before' = out_file
    /\ pc' = "load"
    /\ UNCHANGED <<file, args, default_drop, out_file, results>>
    /\ UNCHANGED fnvars

\* 1. df = load_data(input_filepath)
LoadData ==
    /\ pc = "load"
    /\ IF file.exists
       THEN /\ df' = file.frame
            /\ loaded_shape' = Shape(file.frame)
            /\ log' = Append(log, "load")
            /\ completed' = Append(completed, "load")
            /\ pc' = "missing"
            /\ UNCHANGED raised
       ELSE /\ raised' = "FileNotFoundError"
            /\ pc' = "failed"
            /\ log' = Append(log, "load")
            /\ UNCHANGED <<df, loaded_shape, completed>>
    /\ UNCHANGED <<file, args, default_drop, drop_ref, columns_to_drop, df_clean,
                   df_normalized, scaler, numeric_cols, out_file, out_before,
                   metadata, runs, results>>
    /\ UNCHANGED fnvars

\* 2. df = check_missing_values(df)
CheckMissingValues ==
    /\ pc = "missing"
    /\ df' = check_missing_values(df)
    /\ log' = Append(log, "missing")
    /\ completed' = Append(completed, "missing")
    /\ pc' = "duplicates"
    /\ UNCHANGED <<file, args, default_drop, drop_ref, columns_to_drop, df_clean,
                   df_normalized, scaler, numeric_cols, out_file, out_before,
                   loaded_shape, metadata, raised, runs, results>>
    /\ UNCHANGED fnvars

\* 3. df = check_duplicates(df)
CheckDuplicates ==
    /\ pc = "duplicates"
    /\ df' = check_duplicates(df)
    /\ log' = Append(log, "duplicates")
    /\ completed' = Append(completed, "duplicates")
    /\ pc' = "describe"
    /\ UNCHANGED <<file, args, default_drop, drop_ref, columns_to_drop, df_clean,
                   df_normalized, scaler, numeric_cols, out_file, out_before,
                   loaded_shape, metadata, raised, runs, results>>
    /\ UNCHANGED fnvars

\* 4. df = describe_data(df)
DescribeData ==
    /\ pc = "describe"
    /\ df' = describe_data(df)
    /\ log' = Append(log, "describe")
    /\ completed' = Append(completed, "describe")
    /\ pc' = "drop"
    /\ UNCHANGED <<file, args, default_drop, drop_ref, columns_to_drop, df_clean,
                   df_normalized, scaler, numeric_cols, out_file, out_before,
                   loaded_shape, metadata, raised, runs, results>>
    /\ UNCHANGED fnvars

\* mutation: the duplicate check run once more on the pruned frame
PruneThenDeduplicate ==
    /\ pc = "drop"
    /\ df_clean' = check_duplicates(drop_unnecessary_columns(df, Deref(drop_ref)).table)
    /\ log' = Append(log, "drop")
    /\ completed' = Append(completed, "drop")
    /\ pc' = "normalize"
    /\ UNCHANGED <<file, args, default_drop, drop_ref, columns_to_drop, df,
                   df_normalized, scaler, numeric_cols, out_file, out_before,
                   loaded_shape, metadata, raised, runs, results>>
    /\ UNCHANGED fnvars

\* 5. df_clean = drop_unnecessary_columns(df, columns_to_drop)
DropUnnecessaryColumns ==
    /\ pc = "drop"
    /\ LET r == drop_unnecessary_columns(df, Deref(drop_ref))
       IN  IF r.ok
           THEN /\ df_clean' = r.table
                /\ df' = drop_unnecessary_columns_input(df, Deref(drop_ref))
                /\ log' = Append(log, "drop")
                /\ completed' = Append(completed, "drop")
                /\ pc' = "normalize"
                /\ UNCHANGED raised
           ELSE /\ raised' = r.error
                /\ pc' = "failed"
                /\ log' = Append(log, "drop")
                /\ UNCHANGED <<df, df_clean, completed>>
    /\ UNCHANGED <<file, args, default_drop, drop_ref, columns_to_drop,
                   df_normalized, scaler, numeric_cols, out_file, out_before,
                   loaded_shape, metadata, runs, results>>
    /\ UNCHANGED fnvars

\* mutation: an exception of normalize_features is swallowed and the pipeline
\* goes on with the frame it has
NormalizeOrCarryOn ==
    /\ pc = "normalize"
    /\ \E r \in {normalize_features(df_clean, args.numeric_columns)} :
           IF r.ok
           THEN /\ df_normalized' = r.table
                /\ scaler' = r.scaler
                /\ numeric_cols' = r.numeric_cols
                /\ log' = Append(log, "normalize")
                /\ completed' = Append(completed, "normalize")
           ELSE /\ df_normalized' = df_clean
                /\ log' = Append(log, "normalize")
                /\ UNCHANGED <<scaler, numeric_cols, completed>>
    /\ pc' = "save"
    /\ UNCHANGED <<file, args, default_drop, drop_ref, columns_to_drop, df, df_clean,
                   out_file, out_before, loaded_shape, metadata, raised, runs,
                   results>>
    /\ UNCHANGED fnvars

\* 6. df_normalized, scaler, numeric_cols = normalize_features(df_clean, numeric_columns)
NormalizeFeatures ==
    /\ pc = "normalize"
    /\ \E r \in {normalize_features(df_clean, args.numeric_columns)} :
           IF r.ok
           THEN /\ df_normalized' = r.table
                /\ scaler' = r.scaler
                /\ numeric_cols' = r.numeric_cols
                /\ log' = Append(log, "normalize")
                /\ completed' = Append(completed, "normalize")
                /\ pc' = "save"
                /\ UNCHANGED raised
           ELSE /\ raised' = r.error
                /\ pc' = "failed"
                /\ log' = Append(log, "normalize")
                /\ UNCHANGED <<df_normalized, scaler, numeric_cols, completed>>
    /\ UNCHANGED <<file, args, default_drop, drop_ref, columns_to_drop, df, df_clean,
                   out_file, out_before, loaded_shape, metadata, runs, results>>
    /\ UNCHANGED fnvars

\* 7. if output_filepath: df_normalized.to_csv(output_filepath, index=False)
SaveResult ==
    /\ pc = "save"
    /\ IF args.output
       THEN /\ out_file' = CsvFile(to_csv(df_normalized))
            /\ log' = Append(log, "save")
            /\ completed' = Append(completed, "save")
       ELSE UNCHANGED <<out_file, log, completed>>
    /\ pc' = "metadata"
    /\ UNCHANGED <<file, args, default_drop, drop_ref, columns_to_drop, df, df_clean,
                   df_normalized, scaler, numeric_cols, out_before, loaded_shape,
                   metadata, raised, runs, results>>
    /\ UNCHANGED fnvars

\* 8. the metadata dict; 'columns_dropped' holds the parameter's list object
\* itself, so the record keeps the reference
build_metadata ==
    [input_file |-> "input_filepath",
     output_file |-> IF args.output THEN "output_filepath" ELSE "None",
     original_shape |-> Shape(df),
     final_shape |-> Shape(df_normalized),
     columns_dropped |-> drop_ref,
     normalized_columns |-> numeric_cols,
     scaler |-> scaler]

\* return df_normalized, scaler, numeric_cols, metadata
BuildMetadataAndReturn ==
    /\ pc = "metadata"
    /\ metadata' = build_metadata
    /\ results' = Append(results,
                         [df_normalized |-> df_normalized,
                          scaler |-> scaler,
                          numeric_cols |-> numeric_cols,
                          metadata |-> [build_metadata EXCEPT
                                           !.columns_dropped = Deref(drop_ref)]])
    /\ pc' = "done"
    /\ UNCHANGED <<file, args, default_drop, drop_ref, columns_to_drop, df, df_clean,
                   df_normalized, scaler, numeric_cols, out_file, out_before, log,
                   completed, loaded_shape, raised, runs>>
    /\ UNCHANGED fnvars

\* the caller does metadata['columns_dropped'].append(name) on the record it got
CallerAppendsToColumnsDropped ==
    /\ pc = "done"
    /\ \E name \in CallerNames \ Range(Deref(metadata.columns_dropped)) :
        IF metadata.columns_dropped = "default"
        THEN /\ default_drop' = Append(default_drop, name)
             /\ UNCHANGED columns_to_drop
        ELSE /\ columns_to_drop' = Append(columns_to_drop, name)
             /\ UNCHANGED default_drop
    /\ UNCHANGED <<pc, file, args, drop_ref, df, df_clean, df_normalized, scaler,
                   numeric_cols, out_file, out_before, log, completed, loaded_shape, metadata,
                   raised, runs, results>>
    /\ UNCHANGED fnvars

Next ==
    \/ Call
    \/ LoadData
    \/ CheckMissingValues
    \/ CheckDuplicates
    \/ DescribeData
    \/ DropUnnecessaryColumns
    \/ NormalizeFeatures
    \/ SaveResult
    \/ BuildMetadataAndReturn
    \/ CallerAppendsToColumnsDropped

Spec == Init /\ [][Next]_vars

-----------------------------------------------------------------------------
(* Properties of the stage functions, checked under SpecQuality, SpecDrop and *)
(* SpecNormalize                                                            *)

Complete(t) == {i \in 1..Len(t.rows) : \A c \in ColSet(t) : t.rows[i].val[c] # NaN}

\* the complete rows that no earlier complete row equals
Survivors(t) ==
    {i \in Complete(t) :
        \A j \in Complete(t) : j < i => t.rows[j].val # t.rows[i].val}

\* the k-th smallest element of the set of positions S
NthOf(S, k) == CHOOSE i \in S : Cardinality({j \in S : j < i}) = k - 1

\* C1: check_missing_values then check_duplicates yields exactly the input rows
\* without a missing value, each group of identical rows collapsed to its first
\* occurrence, in the original relative order; so the row count never grows,
\* no surviving row has a missing value and no two surviving rows are identical.
C1_QualityChecks ==
    fn = "quality" =>
        LET out == fn_ret.table
        IN  /\ fn_ret.ok
            /\ out.columns = fn_in.columns
            /\ Len(out.rows) = Cardinality(Survivors(fn_in))
            /\ \A k \in 1..Len(out.rows) :
                   out.rows[k] = fn_in.rows[NthOf(Survivors(fn_in), k)]
            /\ Len(out.rows) <= Len(fn_in.rows)
            /\ \A k \in 1..Len(out.rows) : \A c \in ColSet(out) :
                   out.rows[k].val[c] # NaN
            /\ \A k1, k2 \in 1..Len(out.rows) :
                   k1 # k2 => out.rows[k1].val # out.rows[k2].val

\* a frame with a row that has a missing value, a complete row repeated later and
\* a second, different complete row: one row is dropped for each reason and two
\* rows survive in their order
C1_Witness ==
    /\ fn = "quality"
    /\ \E i \in 1..Len(fn_in.rows) : i \notin Complete(fn_in)
    /\ \E i, j \in Complete(fn_in) : i < j /\ fn_in.rows[i].val = fn_in.rows[j].val
    /\ Len(fn_ret.table.rows) >= 1
    /\ Len(fn_ret.table.rows) < Len(fn_in.rows)

PositionIn(seq, x) == CHOOSE i \in 1..Len(seq) : seq[i] = x

\* C2: drop_unnecessary_columns returns a frame whose columns are the original
\* columns minus (drop list /\ original columns), in the original order; names
\* of the drop list that are no column are ignored without error; the frame
\* passed in has the same columns and rows after the call.
C2_DropColumns ==
    fn = "drop" =>
        LET out == fn_ret.table
            l == fn_arg.list
        IN  /\ fn_ret.ok
            /\ ColSet(out) = ColSet(fn_in) \ (Range(l) \cap ColSet(fn_in))
            /\ Len(out.columns) = Cardinality(ColSet(out))
            /\ \A i, j \in 1..Len(out.columns) :
                   i < j => PositionIn(fn_in.columns, out.columns[i])
                              < PositionIn(fn_in.columns, out.columns[j])
            /\ fn_df = fn_in

\* a drop list with a name that is a column and a name that is not, leaving
\* two columns behind
C2_Witness ==
    /\ fn = "drop"
    /\ fn_ret.ok
    /\ \E x \in Range(fn_arg.list) : x \in ColSet(fn_in)
    /\ \E x \in Range(fn_arg.list) : x \notin ColSet(fn_in)
    /\ Len(fn_ret.table.columns) = 2
    /\ Len(fn_in.rows) > 0

\* the values of column c of frame t that are not missing
Values(t, c) == {t.rows[i].val[c] : i \in 1..Len(t.rows)} \ {NaN}

\* C3: for a target column whose values are not all equal, after
\* normalize_features the column's minimum is 0, its maximum is 1, every value
\* lies in [0,1] and x1 <= x2 before implies y1 <= y2 after.
C3_MinMaxRange ==
    (fn = "normalize" /\ fn_ret.ok) =>
        LET out == fn_ret.table
        IN  \A c \in Range(fn_ret.numeric_cols) :
                Cardinality(Values(fn_in, c)) >= 2 =>
                    /\ Num(0) \in Values(out, c)
                    /\ Num(1) \in Values(out, c)
                    /\ \A y \in Values(out, c) : Leq(Num(0), y) /\ Leq(y, Num(1))
                    /\ \A i, j \in 1..Len(fn_in.rows) :
                          Leq(fn_in.rows[i].val[c], fn_in.rows[j].val[c])
                              => Leq(out.rows[i].val[c], out.rows[j].val[c])

\* C4: for a constant target column (min = max) normalize_features either fails
\* with an explicit error or returns a defined number for every value of the
\* column; nothing undefined (a division by zero) reaches the returned frame.
C4_ConstantColumn ==
    fn = "normalize" =>
        \/ ~fn_ret.ok /\ fn_ret.error # "none"
        \/ \A c \in Range(fn_ret.numeric_cols) :
              Cardinality(Values(fn_in, c)) = 1 =>
                  /\ fn_ret.scaler[c].scale.k = "num"
                  /\ fn_ret.scaler[c].min.k = "num"
                  /\ \A i \in 1..Len(fn_in.rows) :
                        fn_in.rows[i].val[c] # NaN =>
                            fn_ret.table.rows[i].val[c].k = "num"

\* a returned frame with a constant target column of two rows, its value not 0:
\* both entries are 0 after the call
C4_Witness ==
    /\ fn = "normalize"
    /\ fn_ret.ok
    /\ \E c \in Range(fn_ret.numeric_cols) :
        /\ Values(fn_in, c) = {Num(MaxScaledVal)}
        /\ Len(fn_in.rows) = MaxScaledRows
        /\ \A i \in 1..Len(fn_in.rows) : fn_in.rows[i].val[c] # NaN
        /\ \A i \in 1..Len(fn_in.rows) : fn_ret.table.rows[i].val[c] = Num(0)

\* C5: given an explicit list whose names are each a numeric column or absent,
\* normalize_features returns normally and the resolved list is the given list
\* restricted to the names present, in the given order, also when no name of the
\* list is present.
C5_ExplicitList ==
    (/\ fn = "normalize"
     /\ fn_arg.given
     /\ \A x \in Range(fn_arg.list) :
            x \in ColSet(fn_in) => fn_in.dtypes[x] # "object")
    => /\ fn_ret.ok
       /\ fn_ret.numeric_cols = SelectSeq(fn_arg.list, LAMBDA x : x \in ColSet(fn_in))

-----------------------------------------------------------------------------
(* Properties of preprocessing_pipeline, checked under Spec *)

StageOrder == <<"load", "missing", "duplicates", "describe", "drop", "normalize">>

\* C6: the output file is written only after the load, missing-value, duplicate,
\* describe, prune and normalize stages have completed in that order; when a
\* stage fails nothing is written to the output path and the failure reaches
\* the caller.
C6_WriteLast ==
    /\ "save" \in Range(completed) =>
          /\ completed = StageOrder \o <<"save">>
          /\ log = StageOrder \o <<"save">>
    /\ out_file # out_before => "save" \in Range(completed)
    /\ pc = "failed" =>
          /\ raised # "none"
          /\ "save" \notin Range(completed)
          /\ "save" \notin Range(log)
          /\ out_file = out_before

\* a call that asked for an output file and failed inside normalize_features,
\* after its banner and five completed stages: the output path holds nothing
C6_Witness ==
    /\ pc = "failed"
    /\ raised = "ValueError"
    /\ args.output
    /\ log = StageOrder
    /\ completed = SubSeq(StageOrder, 1, 5)
    /\ Len(file.frame.rows) = MaxFileRows
    /\ out_file = NoFile

\* the record the last completed call returned, as it was when returned
Returned == results[Len(results)]

\* C7: the returned metadata records as original shape the (rows, columns) of the
\* frame as loaded, before any row is removed, and as final shape the
\* (rows, columns) of the returned final frame.
C7_OriginalShape ==
    pc = "done" =>
        /\ Returned.metadata.original_shape = Shape(file.frame)
        /\ Returned.metadata.original_shape = loaded_shape
        /\ Returned.metadata.final_shape = Shape(Returned.df_normalized)

\* C8: the list of dropped column names in the returned metadata is exactly the
\* set of columns the prune stage removed (drop list /\ columns of the cleaned
\* frame); a name of the drop list that was no column does not appear in it.
C8_ColumnsDropped ==
    pc = "done" =>
        /\ Range(Returned.metadata.columns_dropped) = ColSet(df) \ ColSet(df_clean)
        /\ \A x \in Range(Returned.metadata.columns_dropped) : x \in ColSet(file.frame)

\* C9: no mutable state is shared between calls: whatever the caller does with
\* what an earlier call returned, a later call with the same arguments on the
\* same input file drops the same columns and returns the same result.
C9_RunsIndependent ==
    \A i, j \in 1..Len(results) :
        /\ ColSet(results[i].df_normalized) = ColSet(results[j].df_normalized)
        /\ results[i] = results[j]

\* the index labels of a frame's rows
Index(t) == {t.rows[i].idx : i \in 1..Len(t.rows)}

\* C10: the missing-value and duplicate checks look at every loaded column,
\* before the prune stage: a row whose only missing value lies in a column of
\* the drop list is absent from the final frame, and rows that differ only in
\* columns of the drop list are all kept.
C10_ChecksBeforePrune ==
    pc \in {"save", "metadata", "done"} =>
        LET f == file.frame
        IN  /\ Index(df_normalized) = {f.rows[i].idx : i \in Survivors(f)}
            /\ \A i \in 1..Len(f.rows) :
                  (\E c \in ColSet(f) : f.rows[i].val[c] = NaN)
                      => f.rows[i].idx \notin Index(df_normalized)
            /\ \A i, j \in Complete(f) :
                  f.rows[i].val # f.rows[j].val
                      => \E k \in {i, j} : f.rows[k].idx \in Index(df_normalized)
            /\ \A i, j \in Complete(f) :
                  (i < j /\ f.rows[i].val # f.rows[j].val
                         /\ \A k \in Complete(f) : k < j => f.rows[k].val # f.rows[j].val)
                      => f.rows[j].idx \in Index(df_normalized)

\* two loaded rows that differ in the dropped id column alone are both in the
\* final frame, which so holds two identical rows
C10_Witness ==
    /\ pc = "done"
    /\ Len(df_normalized.rows) = 2
    /\ df_normalized.rows[1].val = df_normalized.rows[2].val
    /\ df_normalized.rows[1].idx # df_normalized.rows[2].idx
    /\ file.frame.rows[1].val["id"] # file.frame.rows[2].val["id"]
    /\ "id" \notin ColSet(df_normalized)

====
